---- MODULE Spec2Model ----
(***************************************************************************)
(* Model of VoipHub.run (src/alex/applications/vhub.py): the main loop of  *)
(* the hub, its seven command connections, its local session variables and *)
(* the three timer checks.  The seven stages (VoipIO, VAD, ASR, SLU, DM,   *)
(* NLG, TTS) are the environment: they put notifications on their command  *)
(* connection and answer flush() with flushed.                             *)
(*                                                                         *)
(* Time is counted in units of 10 ms: the literal 0.02 of line 257 is 2    *)
(* and the literal 2.0 of lines 344-345 is 200.                            *)
(*                                                                         *)
(* NodeSpec models a DiscreteVariableNode of src/alex/ml/bn/node.py and    *)
(* the calls of its methods.                                               *)
(***************************************************************************)
EXTENDS Integers, Sequences, FiniteSets, TLC

\* ------------------------------------------------------------------ bounds
MaxTicks == 3        \* iterations of `while 1` that are explored
MaxEvents == 2       \* notifications the stages produce of their own accord
MaxNodeOps == 5      \* calls of the methods of a DiscreteVariableNode

\* time.sleep(main_loop_sleep_time) returns after one unit or just after 2 s
SleepSteps == {1, 201}

\* the loop that runs for ever: the notifications the stages produce of their
\* own accord, the latest time at which they produce one, and the time at
\* which the clock of the model stops advancing: late enough for a call
\* accepted or rejected by the last notification, handled one per iteration,
\* to outlast the hard time limit
LiveEvents == 2
LiveHorizon == 402
LiveSleep == 201
LiveMaxNow == LiveHorizon + (LiveEvents + 2) * LiveSleep

\* ------------------------------------------------ literals and configuration
BargeInGuard == 2                    \* 0.02 s
QuietTime == 200                     \* 2.0 s
wait_time_before_calling_back == 1
last_period_max_num_calls == 1
last_period_max_total_time == 1
blacklist_for == 5
hard_time_limit == 201
hard_turn_limit == 0

\* what call_db.get_uri_stats can answer for the last period
StatCalls == {1, 2}
StatTimes == {1, 2}

URIs == {"u1", "u2"}
NoUri == "None"

\* ------------------------------------------------------------ connections
Stages == <<"vio", "vad", "asr", "slu", "dm", "nlg", "tts">>
StageSet == {Stages[i] : i \in 1..Len(Stages)}

\* A notification received from a stage and a command sent to a stage.
Note(name, uri) == [name |-> name, remote_uri |-> uri]
Cmd(to, name, uri, num) == [to |-> to, name |-> name, uri |-> uri, num |-> num]

VARIABLES
    pc,          \* position of run() in its loop
    now,         \* time.time()
    ticks,       \* loop iterations started
    loc,         \* the local variables of run() (lines 97-109, 342)
    chan,        \* per stage: notifications not yet received by the hub
    unanswered,  \* per stage: flush() commands sent and not yet answered
    sent,        \* every command the hub sent, in order
    handled,     \* every notification the hub received, in order
    events,      \* notifications the stages produced of their own accord
    close_event, \* the shared multiprocessing.Event
    last,        \* the latest step of the loop: where, what it received, the
                 \* local variables before it, what it sent, whether it raised
                 \* (exc), whether the connection polled next raised (broken),
                 \* how many commands were sent before its iteration (tick0),
                 \* the calls it made on call_db (db)
    call_active, \* a call_confirmed was handled and no call_disconnected since
    node,        \* a DiscreteVariableNode of alex/ml/bn/node.py and the
                 \* factor objects it refers to
    nlast        \* the latest call of a method of the node: which, with
                 \* what arguments, the node before it, the calls so far

nodevars == <<node, nlast>>

vars == <<pc, now, ticks, loc, chan, unanswered, sent, handled, events,
          close_event, last, call_active, nodevars>>

\* ------------------------------------------------------------ init (97-109)
InitLoc ==
    [call_start |-> 0,
     call_back_time |-> -1,
     call_back_uri |-> NoUri,
     number_of_turns |-> -1,
     s_voice_activity |-> FALSE,
     s_last_voice_activity_time |-> 0,
     u_voice_activity |-> FALSE,
     u_last_voice_activity_time |-> 0,
     s_last_dm_activity_time |-> 0,
     hangup |-> FALSE,
     hungup |-> FALSE,
     current_time |-> 0,
     \* names that are not assigned yet: reading one raises NameError
     unbound |-> {"current_time", "hungup"},
     \* the two entries of self.cfg['VoipHub'] that lines 351-352 read
     cfg |-> [hard_time_limit |-> hard_time_limit,
              hard_turn_limit |-> hard_turn_limit]]

\* What handling one notification, or one timer check, does: the new local
\* variables, the commands sent (in order), whether an exception was raised
\* and the calls made on call_db (in order).
R(L, sends, exc) == [loc |-> L, sends |-> sends, exc |-> exc, db |-> <<>>]

\* a call of a method of call_db for a uri
DbCall(method, uri) == [method |-> method, uri |-> uri]

\* ------------------------------------------------- VoipIO notifications
\* (mutant) a rejected call does not replace a callback that is pending
RejectedCallKeepsPending(L, c, t) ==
    IF L.call_back_time # -1 THEN R(L, <<>>, FALSE)
    ELSE R([L EXCEPT !.call_back_time = t + wait_time_before_calling_back,
                     !.call_back_uri = c.remote_uri], <<>>, FALSE)

\* lines 145-149
RejectedCall(L, c, t) ==
    R([L EXCEPT !.call_back_time = t + wait_time_before_calling_back,
                !.call_back_uri = c.remote_uri], <<>>, FALSE)

\* (mutant) the call is rejected only when both limits are exceeded
LimitReachedOnBoth(st) ==
    st.calls > last_period_max_num_calls /\ st.time > last_period_max_total_time

\* line 189-190: the admission test on the statistics of the last period
LimitReached(st) ==
    st.calls > last_period_max_num_calls \/ st.time > last_period_max_total_time

\* (mutant) the rejecting branch does not mark the system as speaking
RejectWithoutVoiceActivity(L, c, t) ==
    R([L EXCEPT !.call_start = t,
                !.number_of_turns = 0,
                !.u_voice_activity = FALSE,
                !.u_last_voice_activity_time = 0,
                !.hangup = TRUE],
      <<Cmd("tts", "synthesize", NoUri, 0),
        Cmd("vio", "black_list", c.remote_uri, t + blacklist_for)>>,
      FALSE)

\* lines 191-203
RejectConfirmedCall(L, c, t) ==
    R([L EXCEPT !.call_start = t,
                !.number_of_turns = 0,
                !.s_voice_activity = TRUE,
                !.s_last_voice_activity_time = t,
                !.u_voice_activity = FALSE,
                !.u_last_voice_activity_time = 0,
                !.hangup = TRUE],
      <<Cmd("tts", "synthesize", NoUri, 0),
        Cmd("vio", "black_list", c.remote_uri, t + blacklist_for)>>,
      FALSE)

\* (mutant) the accepting branch leaves the system's voice activity as it is
AcceptKeepsVoiceActivity(L, c, t) ==
    R([L EXCEPT !.call_start = t,
                !.number_of_turns = 0,
                !.u_voice_activity = FALSE,
                !.u_last_voice_activity_time = 0,
                !.hungup = FALSE,
                !.unbound = @ \ {"hungup"}],
      <<Cmd("dm", "new_dialogue", NoUri, 0)>>,
      FALSE)

\* lines 204-216; line 213 assigns hungup, a name nothing reads
AcceptConfirmedCall(L, c, t) ==
    R([L EXCEPT !.call_start = t,
                !.number_of_turns = 0,
                !.s_voice_activity = FALSE,
                !.s_last_voice_activity_time = 0,
                !.u_voice_activity = FALSE,
                !.u_last_voice_activity_time = 0,
                !.hungup = FALSE,
                !.unbound = @ \ {"hungup"}],
      <<Cmd("dm", "new_dialogue", NoUri, 0)>>,
      FALSE)

\* (mutant) the call is recorded before the statistics are read
CallConfirmedTrackedFirst(L, c, t, st) ==
    [(IF LimitReached(st) THEN RejectConfirmedCall(L, c, t)
                          ELSE AcceptConfirmedCall(L, c, t))
       EXCEPT !.db = <<DbCall("track_confirmed_call", c.remote_uri),
                       DbCall("get_uri_stats", c.remote_uri)>>]

\* lines 174-223: st is what get_uri_stats (line 176) returned for the last
\* period; track_confirmed_call (line 222) follows either branch
CallConfirmed(L, c, t, st) ==
    [(IF LimitReached(st) THEN RejectConfirmedCall(L, c, t)
                          ELSE AcceptConfirmedCall(L, c, t))
       EXCEPT !.db = <<DbCall("get_uri_stats", c.remote_uri),
                       DbCall("track_confirmed_call", c.remote_uri)>>]

\* lines 225-235
CallDisconnected(L, c, t) ==
    [R(L, <<Cmd("vio", "flush", NoUri, 0)>>, FALSE)
       EXCEPT !.db = <<DbCall("track_disconnected_call", c.remote_uri)>>]

\* lines 237-239
PlayUtteranceStart(L, t) ==
    R([L EXCEPT !.s_voice_activity = TRUE,
                !.s_last_voice_activity_time = t], <<>>, FALSE)

\* lines 241-243
PlayUtteranceEnd(L, t) ==
    R([L EXCEPT !.s_voice_activity = FALSE,
                !.s_last_voice_activity_time = t], <<>>, FALSE)

\* lines 245-247
VioFlushed(L) == R(L, <<Cmd("vad", "flush", NoUri, 0)>>, FALSE)

\* lines 131-247: the ifs test the name of the one command received
OnVio(L, c, t, st) ==
    CASE c.name = "rejected_call" -> RejectedCall(L, c, t)
      [] c.name = "call_confirmed" -> CallConfirmed(L, c, t, st)
      [] c.name = "call_disconnected" -> CallDisconnected(L, c, t)
      [] c.name = "play_utterance_start" -> PlayUtteranceStart(L, t)
      [] c.name = "play_utterance_end" -> PlayUtteranceEnd(L, t)
      [] c.name = "flushed" -> VioFlushed(L)
      \* incoming_call, rejected_call_from_blacklisted_uri, call_connecting:
      \* logging and analytics only (133-143, 151-172)
      [] OTHER -> R(L, <<>>, FALSE)

\* ---------------------------------------------------- VAD notifications
\* line 257: the test reads current_time, which line 342 assigns at the end
\* of an iteration; `and` evaluates it only when s_voice_activity is true
BargeIn(L) ==
    L.s_voice_activity /\ L.s_last_voice_activity_time + BargeInGuard < L.current_time

\* lines 254-267
SpeechStart(L, t) ==
    LET L1 == [L EXCEPT !.u_voice_activity = TRUE] IN
    IF L1.s_voice_activity /\ "current_time" \in L1.unbound
      THEN R(L1, <<>>, TRUE)      \* NameError
      ELSE IF BargeIn(L1)
        THEN R([L1 EXCEPT !.s_voice_activity = FALSE,
                          !.s_last_voice_activity_time = t],
               <<Cmd("nlg", "flush", NoUri, 0)>>, FALSE)
        ELSE R(L1, <<>>, FALSE)

\* lines 269-272
SpeechEnd(L, t) ==
    R([L EXCEPT !.u_voice_activity = FALSE,
                !.u_last_voice_activity_time = t], <<>>, FALSE)

\* lines 274-276
VadFlushed(L) == R(L, <<Cmd("asr", "flush", NoUri, 0)>>, FALSE)

\* (mutant) VAD's connection is handled with the names of DM's as well
OnVadAlsoHangup(L, c, t) ==
    CASE c.name = "speech_start" -> SpeechStart(L, t)
      [] c.name = "speech_end" -> SpeechEnd(L, t)
      [] c.name = "flushed" -> VadFlushed(L)
      [] c.name = "hangup" -> R([L EXCEPT !.hangup = TRUE], <<>>, FALSE)
      [] OTHER -> R(L, <<>>, FALSE)

\* lines 253-276
OnVad(L, c, t) ==
    CASE c.name = "speech_start" -> SpeechStart(L, t)
      [] c.name = "speech_end" -> SpeechEnd(L, t)
      [] c.name = "flushed" -> VadFlushed(L)
      [] OTHER -> R(L, <<>>, FALSE)

\* ------------------------------------------------ ASR, SLU notifications
\* (mutant) the flushed of ASR flushes DM, leaving SLU out
OnAsrSkipsSlu(L, c) ==
    IF c.name = "flushed" THEN R(L, <<Cmd("dm", "flush", NoUri, 0)>>, FALSE)
                          ELSE R(L, <<>>, FALSE)

\* lines 282-285
OnAsr(L, c) ==
    IF c.name = "flushed" THEN R(L, <<Cmd("slu", "flush", NoUri, 0)>>, FALSE)
                          ELSE R(L, <<>>, FALSE)

\* (mutant) the flushed of SLU sends end_dialogue ahead of the flush
OnSluEndsFirst(L, c) ==
    IF c.name = "flushed"
      THEN R(L, <<Cmd("dm", "end_dialogue", NoUri, 0),
                  Cmd("dm", "flush", NoUri, 0)>>, FALSE)
      ELSE R(L, <<>>, FALSE)

\* lines 291-295
OnSlu(L, c) ==
    IF c.name = "flushed"
      THEN R(L, <<Cmd("dm", "flush", NoUri, 0),
                  Cmd("dm", "end_dialogue", NoUri, 0)>>, FALSE)
      ELSE R(L, <<>>, FALSE)

\* ----------------------------------------------------- DM notifications
\* lines 302-305
DmHangup(L) == R([L EXCEPT !.hangup = TRUE], <<>>, FALSE)

\* lines 307-311
DmDaGenerated(L, t) ==
    R([L EXCEPT !.s_last_dm_activity_time = t,
                !.number_of_turns = @ + 1], <<>>, FALSE)

\* (mutant) the flushed of DM is not passed on
DmFlushedDropped(L) == R(L, <<>>, FALSE)

\* lines 320-322
DmFlushed(L) == R(L, <<Cmd("nlg", "flush", NoUri, 0)>>, FALSE)

\* lines 301-322
OnDm(L, c, t) ==
    CASE c.name = "hangup" -> DmHangup(L)
      [] c.name = "dm_da_generated" -> DmDaGenerated(L, t)
      [] c.name = "flushed" -> DmFlushed(L)
      [] OTHER -> R(L, <<>>, FALSE)

\* ------------------------------------------------ NLG, TTS notifications
\* (mutant) the flushed of NLG flushes the input half of the pipeline
OnNlgFlushesVio(L, c) ==
    IF c.name = "flushed" THEN R(L, <<Cmd("vio", "flush", NoUri, 0)>>, FALSE)
                          ELSE R(L, <<>>, FALSE)

\* lines 328-331
OnNlg(L, c) ==
    IF c.name = "flushed" THEN R(L, <<Cmd("tts", "flush", NoUri, 0)>>, FALSE)
                          ELSE R(L, <<>>, FALSE)

\* (mutant) the flushed of TTS starts the cascade again
OnTtsFlushesVio(L, c) ==
    IF c.name = "flushed" THEN R(L, <<Cmd("vio", "flush", NoUri, 0)>>, FALSE)
                          ELSE R(L, <<>>, FALSE)

\* lines 337-340
OnTts(L, c) ==
    IF c.name = "flushed" THEN R(L, <<Cmd("vio", "flush_out", NoUri, 0)>>, FALSE)
                          ELSE R(L, <<>>, FALSE)

\* ---------------------------------------------------------- timer checks
\* (mutant) the callback is made as soon as its time is reached
CallBackDueAtDeadline(L, t) == L.call_back_time # -1 /\ L.call_back_time <= t

\* lines 121-124, evaluated right after the sleep
CallBackDue(L, t) == L.call_back_time # -1 /\ L.call_back_time < t

CallBack(L, t) ==
    IF CallBackDue(L, t)
      THEN R([L EXCEPT !.call_back_time = -1, !.call_back_uri = NoUri],
             <<Cmd("vio", "make_call", L.call_back_uri, 0)>>, FALSE)
      ELSE R(L, <<>>, FALSE)

\* (mutant) the soft hangup does not wait for the system to stop speaking
SoftHangupIgnoresVoice(L) ==
    /\ L.hangup
    /\ L.s_last_dm_activity_time + QuietTime < L.current_time
    /\ L.s_last_voice_activity_time + QuietTime < L.current_time

\* lines 344-345
SoftHangupReady(L) ==
    /\ L.hangup
    /\ L.s_last_dm_activity_time + QuietTime < L.current_time
    /\ L.s_voice_activity = FALSE
    /\ L.s_last_voice_activity_time + QuietTime < L.current_time

\* lines 344-348
SoftHangup(L) ==
    IF SoftHangupReady(L)
      THEN R([L EXCEPT !.hangup = FALSE], <<Cmd("vio", "hangup", NoUri, 0)>>, FALSE)
      ELSE R(L, <<>>, FALSE)

\* (mutant) the hard limit is on the number of turns only
HardLimitOnTurnsOnly(L) == L.number_of_turns > L.cfg.hard_turn_limit

\* (mutant) the hard limits wait for the system to stop speaking
HardLimitWhenQuiet(L) ==
    /\ L.s_voice_activity = FALSE
    /\ \/ (L.number_of_turns # -1 /\ L.current_time - L.call_start > hard_time_limit)
       \/ L.number_of_turns > hard_turn_limit

\* lines 351-352: `and` binds tighter than `or`
HardLimitReached(L) ==
    \/ (/\ L.number_of_turns # -1
        /\ L.current_time - L.call_start > L.cfg.hard_time_limit)
    \/ L.number_of_turns > L.cfg.hard_turn_limit

\* lines 350-354
HardHangup(L) ==
    IF HardLimitReached(L)
      THEN R([L EXCEPT !.number_of_turns = -1],
             <<Cmd("vio", "hangup", NoUri, 0)>>, FALSE)
      ELSE R(L, <<>>, FALSE)

\* lines 342-354
Timers(L, t) ==
    LET L1 == [L EXCEPT !.current_time = t, !.unbound = @ \ {"current_time"}]
        soft == SoftHangup(L1)
        hard == HardHangup(soft.loc)
    IN R(hard.loc, soft.sends \o hard.sends, FALSE)

\* ------------------------------------------------------------ the loop
NoNote == Note("", NoUri)
NoStats == [calls |-> 0, time |-> 0]
Stats == [calls : StatCalls, time : StatTimes]

\* The notifications each stage produces of its own accord.  Besides the
\* names its handlers test, a connection can deliver a name of another stage
\* (speech_start from VoipIO, hangup from VAD) and an object that is not a
\* Command, which the isinstance tests of lines 131, 253, ... pass by and
\* which therefore has none of the names.
Notifications(s) ==
    CASE s = "vio" ->
           {Note(n, "u1") : n \in {"incoming_call", "call_confirmed",
                                   "call_disconnected",
                                   "play_utterance_start", "play_utterance_end"}}
           \cup {Note("rejected_call", u) : u \in URIs}
           \cup {Note("speech_start", NoUri)}
      [] s = "vad" -> {Note("speech_start", NoUri), Note("speech_end", NoUri),
                      Note("hangup", NoUri)}
      [] s = "asr" -> {Note("not a Command", NoUri)}
      [] s = "dm" -> {Note("hangup", NoUri), Note("dm_da_generated", NoUri)}
      [] OTHER -> {}

RECURSIVE CountFlush(_, _)
CountFlush(sends, s) ==
    IF sends = <<>> THEN 0
    ELSE (IF Head(sends).to = s /\ Head(sends).name = "flush" THEN 1 ELSE 0)
         + CountFlush(Tail(sends), s)

\* connection.send of every command of a step, and the except clause of
\* lines 378-381 when the step raised
Step(at, note, st, r, nextpc) ==
    /\ loc' = r.loc
    /\ sent' = sent \o r.sends
    /\ handled' = IF note = NoNote THEN handled
                  ELSE Append(handled, [from |-> at, note |-> note])
    /\ unanswered' = [s \in StageSet |-> unanswered[s] + CountFlush(r.sends, s)]
    /\ last' = [at |-> at, note |-> note, stats |-> st, pre |-> loc,
                sends |-> r.sends, exc |-> r.exc, broken |-> FALSE, db |-> r.db,
                tick0 |-> IF at = "callback" THEN Len(sent) ELSE last.tick0]
    /\ pc' = IF r.exc THEN "raised" ELSE nextpc
    /\ close_event' = (close_event \/ r.exc)

\* lines 116-117
Return ==
    /\ pc = "top"
    /\ close_event
    /\ pc' = "returned"
    /\ UNCHANGED <<now, ticks, loc, chan, unanswered, sent, handled, events,
                   close_event, last, call_active, nodevars>>

\* (mutant) the loop goes on although the close event is set
SleepIgnoringCloseEvent ==
    /\ pc = "top"
    /\ ticks < MaxTicks
    /\ \E dt \in SleepSteps :
         /\ now' = now + dt
         /\ Step("callback", NoNote, NoStats, CallBack(loc, now + dt), "vio")
    /\ ticks' = ticks + 1
    /\ UNCHANGED <<chan, events, call_active, nodevars>>

\* (mutant) the loop sleeps and goes on to poll: no callback check here
SleepWithoutCallBack ==
    /\ pc = "top"
    /\ ~close_event
    /\ ticks < MaxTicks
    /\ \E dt \in SleepSteps :
         /\ now' = now + dt
         /\ Step("callback", NoNote, NoStats, R(loc, <<>>, FALSE), "vio")
    /\ ticks' = ticks + 1
    /\ UNCHANGED <<chan, events, call_active, nodevars>>

\* lines 119-124
SleepAndCallBack ==
    /\ pc = "top"
    /\ ~close_event
    /\ ticks < MaxTicks
    /\ \E dt \in SleepSteps :
         /\ now' = now + dt
         /\ Step("callback", NoNote, NoStats, CallBack(loc, now + dt), "vio")
    /\ ticks' = ticks + 1
    /\ UNCHANGED <<chan, events, call_active, nodevars>>

\* what connection.recv() returns when connection.poll() is true
Pending(s) == IF chan[s] = <<>> THEN NoNote ELSE Head(chan[s])

\* connection.poll() and, when it is true, connection.recv() and the handler,
\* whose effect on the command received is r
Poll(s, nextpc, st, r) ==
    /\ pc = s
    /\ IF chan[s] = <<>>
         THEN /\ pc' = nextpc
              /\ last' = [at |-> s, note |-> NoNote, stats |-> NoStats, pre |-> loc,
                          sends |-> <<>>, exc |-> FALSE, broken |-> FALSE,
                          db |-> <<>>, tick0 |-> last.tick0]
              /\ UNCHANGED <<loc, chan, unanswered, sent, handled, close_event>>
         ELSE /\ chan' = [chan EXCEPT ![s] = Tail(@)]
              /\ Step(s, Pending(s), st, r, nextpc)
    /\ UNCHANGED <<now, ticks, events>>

\* (mutant) the VoipIO connection is read until it is empty
PollVioDrains ==
    /\ \E st \in (IF Pending("vio").name = "call_confirmed" THEN Stats
                                                             ELSE {NoStats}) :
         Poll("vio", IF Len(chan["vio"]) > 1 THEN "vio" ELSE "vad", st,
              OnVio(loc, Pending("vio"), now, st))
    /\ call_active' =
         CASE Pending("vio").name = "call_confirmed" -> TRUE
           [] Pending("vio").name = "call_disconnected" -> FALSE
           [] OTHER -> call_active
    /\ UNCHANGED nodevars

\* lines 127-247
PollVio ==
    /\ \E st \in (IF Pending("vio").name = "call_confirmed" THEN Stats
                                                             ELSE {NoStats}) :
         Poll("vio", "vad", st, OnVio(loc, Pending("vio"), now, st))
    /\ call_active' =
         CASE Pending("vio").name = "call_confirmed" -> TRUE
           [] Pending("vio").name = "call_disconnected" -> FALSE
           [] OTHER -> call_active
    /\ UNCHANGED nodevars

\* lines 249-276
PollVad ==
    /\ Poll("vad", "asr", NoStats, OnVad(loc, Pending("vad"), now))
    /\ UNCHANGED <<call_active, nodevars>>

\* lines 278-285
PollAsr ==
    /\ Poll("asr", "slu", NoStats, OnAsr(loc, Pending("asr")))
    /\ UNCHANGED <<call_active, nodevars>>

\* lines 287-295
PollSlu ==
    /\ Poll("slu", "dm", NoStats, OnSlu(loc, Pending("slu")))
    /\ UNCHANGED <<call_active, nodevars>>

\* lines 297-322
PollDm ==
    /\ Poll("dm", "nlg", NoStats, OnDm(loc, Pending("dm"), now))
    /\ UNCHANGED <<call_active, nodevars>>

\* lines 324-331
PollNlg ==
    /\ Poll("nlg", "tts", NoStats, OnNlg(loc, Pending("nlg")))
    /\ UNCHANGED <<call_active, nodevars>>

\* lines 333-340
PollTts ==
    /\ Poll("tts", "timers", NoStats, OnTts(loc, Pending("tts")))
    /\ UNCHANGED <<call_active, nodevars>>

\* (mutant) a connection that raises is passed by and the loop goes on
ConnectionFailureIgnored ==
    /\ pc \in StageSet
    /\ pc' = (IF pc = "tts" THEN "timers"
                            ELSE Stages[(CHOOSE i \in 1..Len(Stages) : Stages[i] = pc) + 1])
    /\ last' = [last EXCEPT !.broken = TRUE]
    /\ UNCHANGED <<now, ticks, loc, chan, unanswered, sent, handled, events,
                   close_event, call_active, nodevars>>

\* poll() or recv() of the connection the loop is at raises (the stage at
\* its other end is gone): the except clause of lines 378-381 sets the close
\* event and raises again
ConnectionFails ==
    /\ pc \in StageSet
    /\ pc' = "raised"
    /\ close_event' = TRUE
    /\ last' = [last EXCEPT !.exc = TRUE, !.broken = TRUE]
    /\ UNCHANGED <<now, ticks, loc, chan, unanswered, sent, handled, events,
                   call_active, nodevars>>

\* lines 342-354
TimerChecks ==
    /\ pc = "timers"
    /\ Step("timers", NoNote, NoStats, Timers(loc, now), "top")
    /\ UNCHANGED <<now, ticks, chan, events, call_active, nodevars>>

\* ------------------------------------------------------ the environment
\* A stage puts a notification on its command connection.  Whenever it does
\* so between two polls of that connection, the later poll receives it: the
\* model puts it there while the loop is at its top.
StageNotify ==
    \E s \in {"vio", "vad", "asr", "dm"} : \E m \in Notifications(s) :
      /\ pc = "top"
      /\ ticks < MaxTicks
      /\ events < MaxEvents
      /\ chan' = [chan EXCEPT ![s] = Append(@, m)]
      /\ events' = events + 1
      /\ UNCHANGED <<pc, now, ticks, loc, unanswered, sent, handled,
                     close_event, last, call_active, nodevars>>

\* A stage answers one flush() with flushed.  The answer is received by the
\* first poll of the connection that follows it: the model lets it arrive
\* right after the flush() was sent, or while the loop is at its top.
StageFlushed ==
    \E s \in StageSet :
      /\ unanswered[s] > 0
      /\ \/ pc = "top" /\ ticks < MaxTicks
         \/ \E i \in 1..Len(last.sends) :
              last.sends[i].to = s /\ last.sends[i].name = "flush"
      /\ unanswered' = [unanswered EXCEPT ![s] = @ - 1]
      /\ chan' = [chan EXCEPT ![s] = Append(@, Note("flushed", NoUri))]
      /\ UNCHANGED <<pc, now, ticks, loc, sent, handled, events, close_event,
                     last, call_active, nodevars>>

\* Another process sets the shared close event.
SetCloseEvent ==
    /\ pc = "top"
    /\ ticks < MaxTicks
    /\ ~close_event
    /\ close_event' = TRUE
    /\ UNCHANGED <<pc, now, ticks, loc, chan, unanswered, sent, handled, events,
                   last, call_active, nodevars>>

\* ------------------------------------ alex/ml/bn/node.py: the variable node
\* A DiscreteVariableNode and the factor objects it refers to.  Objects have
\* an identity: node.heap[i] is the factor object i, and belief,
\* incoming_message and the messages delivered hold object numbers, so that
\* two names of one object and a copy of an object are different things.

\* the values of the variable, and the names of the nodes next to it
Values == {"v0", "v1"}
NeighborNames == <<"f1", "f2">>
NoAssignment == "None"

\* A DiscreteFactor (alex/ml/bn/factor.py): a table of logarithms, and the
\* observation set by observed(), which hides the table until observed(None)
LogZero == -9
Factor(t) == [table |-> t, obs |-> NoAssignment]

View(f) ==
    IF f.obs = NoAssignment
    THEN f.table
    ELSE [v \in Values |-> IF v = f.obs THEN 0 ELSE LogZero]

FactorMul(f, g) == Factor([v \in Values |-> View(f)[v] + View(g)[v]])
FactorDiv(f, g) == Factor([v \in Values |-> View(f)[v] - View(g)[v]])
FactorObserved(f, a) == [f EXCEPT !.obs = a]

\* utils.py, lines 14-16: to_log(np.ones(length))
constant_factor == Factor([v \in Values |-> 0])

\* a new object
Alloc(N, f) == [N EXCEPT !.heap = Append(@, f)]
NewId(N) == Len(N.heap) + 1

\* the tables of the messages the neighbours send
MsgTables == {[v \in Values |-> 0], [v \in Values |-> IF v = "v0" THEN 1 ELSE 0]}

\* lines 80-84 and, for each of the k neighbours, lines 107-112
NewNode(k) ==
    [neighbors |-> SubSeq(NeighborNames, 1, k),
     is_observed |-> FALSE,
     belief |-> 1,
     incoming_message |-> [i \in 1..k |-> i + 1],
     heap |-> [i \in 1..(k + 1) |-> constant_factor],
     delivered |-> [to |-> 0, obj |-> 0]]

\* lines 92-94; n is the position of the sender among the neighbours
message_from(N, n, m) ==
    IF ~N.is_observed
    THEN [N EXCEPT !.incoming_message[n] = m]
    ELSE N

\* reduce(operator.mul, ...): the first object itself when there is one
\* only, a new object for every product
RECURSIVE ReduceMul(_, _, _)
ReduceMul(N, acc, i) ==
    IF i > Len(N.neighbors)
    THEN [N EXCEPT !.belief = acc]
    ELSE ReduceMul(Alloc(N, FactorMul(N.heap[acc], N.heap[N.incoming_message[i]])),
                   NewId(N), i + 1)

\* (mutant) the belief is recomputed although the node is observed
UpdateWhenObserved(N) == ReduceMul(N, N.incoming_message[1], 2)

\* lines 96-98
update(N) ==
    IF ~N.is_observed
    THEN ReduceMul(N, N.incoming_message[1], 2)
    ELSE N

\* lines 86-90; delivered is the call of message_from on the neighbour
message_to(N, n) ==
    IF N.is_observed
    THEN [Alloc(N, N.heap[N.belief])
            EXCEPT !.delivered = [to |-> n, obj |-> NewId(N)]]
    ELSE [Alloc(N, FactorDiv(N.heap[N.belief], N.heap[N.incoming_message[n]]))
            EXCEPT !.delivered = [to |-> n, obj |-> NewId(N)]]

\* lines 100-107
observed(N, a) ==
    IF a # NoAssignment
    THEN [N EXCEPT !.is_observed = TRUE,
                   !.heap[N.belief] = FactorObserved(@, a)]
    ELSE [N EXCEPT !.is_observed = FALSE,
                   !.heap[N.belief] = FactorObserved(@, NoAssignment)]

\* no node: the hub has none
NoNode == NewNode(0)
NoArg == [node |-> 0, message |-> 0, assignment |-> NoAssignment]
NoCall == [op |-> "", arg |-> NoArg, pre |-> NoNode, ops |-> <<>>]

hubvars == <<pc, now, ticks, loc, chan, unanswered, sent, handled, events,
             close_event, last, call_active>>

\* one call of a method of the node
NodeCall(op, arg, N) ==
    /\ Len(nlast.ops) < MaxNodeOps
    /\ node' = N
    /\ nlast' = [op |-> op, arg |-> arg, pre |-> node, ops |-> Append(nlast.ops, op)]

\* a neighbour calls message_from with a message it has just computed
NodeMessageFrom ==
    /\ \E n \in 1..Len(node.neighbors) : \E t \in MsgTables :
         NodeCall("message_from",
                  [NoArg EXCEPT !.node = n, !.message = NewId(node)],
                  message_from(Alloc(node, Factor(t)), n, NewId(node)))
    /\ UNCHANGED hubvars

NodeUpdate ==
    /\ NodeCall("update", NoArg, update(node))
    /\ UNCHANGED hubvars

NodeMessageTo ==
    /\ \E n \in 1..Len(node.neighbors) :
         NodeCall("message_to", [NoArg EXCEPT !.node = n], message_to(node, n))
    /\ UNCHANGED hubvars

NodeObserved ==
    /\ \E a \in Values \cup {NoAssignment} :
         NodeCall(IF a = NoAssignment THEN "observed(None)" ELSE "observed",
                  [NoArg EXCEPT !.assignment = a], observed(node, a))
    /\ UNCHANGED hubvars

HubInit ==
    /\ pc = "top"
    /\ now = 0
    /\ ticks = 0
    /\ loc = InitLoc
    /\ chan = [s \in StageSet |-> <<>>]
    /\ unanswered = [s \in StageSet |-> 0]
    /\ sent = <<>>
    /\ handled = <<>>
    /\ events = 0
    /\ close_event = FALSE
    /\ last = [at |-> "init", note |-> NoNote, stats |-> NoStats, pre |-> InitLoc,
               sends |-> <<>>, exc |-> FALSE, broken |-> FALSE, db |-> <<>>,
               tick0 |-> 0]
    /\ call_active = FALSE

Init ==
    /\ HubInit
    /\ node = NoNode
    /\ nlast = NoCall

NodeInit ==
    /\ HubInit
    /\ node \in {NewNode(k) : k \in 1..Len(NeighborNames)}
    /\ nlast = NoCall

NodeNext ==
    \/ NodeMessageFrom
    \/ NodeUpdate
    \/ NodeMessageTo
    \/ NodeObserved

NodeSpec == NodeInit /\ [][NodeNext]_vars

Next ==
    \/ Return
    \/ SleepAndCallBack
    \/ PollVio
    \/ PollVad
    \/ PollAsr
    \/ PollSlu
    \/ PollDm
    \/ PollNlg
    \/ PollTts
    \/ TimerChecks
    \/ ConnectionFails
    \/ StageNotify
    \/ StageFlushed
    \/ SetCloseEvent

Spec == Init /\ [][Next]_vars

\* ------------------------------------------- the loop that runs for ever
\* The same loop with no bound on its iterations, for what the hub does in
\* the end: no process sets the close event and no connection breaks; the
\* stages produce LiveEvents notifications, all by LiveHorizon; the clock
\* advances by LiveSleep in every iteration until it reaches LiveMaxNow.

\* lines 119-124
LiveTick ==
    /\ pc = "top"
    /\ ~close_event
    /\ now' = (IF now + LiveSleep <= LiveMaxNow THEN now + LiveSleep ELSE now)
    /\ Step("callback", NoNote, NoStats, CallBack(loc, now'), "vio")
    /\ ticks' = (IF ticks < MaxTicks THEN ticks + 1 ELSE ticks)
    /\ UNCHANGED <<chan, events, call_active, nodevars>>

LiveNotifications(s) ==
    CASE s = "vio" -> {Note(n, "u1") : n \in {"call_confirmed", "call_disconnected",
                                              "play_utterance_start",
                                              "play_utterance_end"}}
      [] s = "vad" -> {Note("speech_start", NoUri)}
      [] s = "dm" -> {Note("hangup", NoUri), Note("dm_da_generated", NoUri)}
      [] OTHER -> {}

LiveNotify ==
    \E s \in {"vio", "vad", "dm"} : \E m \in LiveNotifications(s) :
      /\ pc = "top"
      /\ now <= LiveHorizon
      /\ events < LiveEvents
      /\ chan' = [chan EXCEPT ![s] = Append(@, m)]
      /\ events' = events + 1
      /\ UNCHANGED <<pc, now, ticks, loc, unanswered, sent, handled,
                     close_event, last, call_active, nodevars>>

\* stage s answers one flush() with flushed
LiveFlushed(s) ==
    /\ pc = "top"
    /\ unanswered[s] > 0
    /\ unanswered' = [unanswered EXCEPT ![s] = @ - 1]
    /\ chan' = [chan EXCEPT ![s] = Append(@, Note("flushed", NoUri))]
    /\ UNCHANGED <<pc, now, ticks, loc, sent, handled, events, close_event,
                   last, call_active, nodevars>>

LiveStageFlushed == \E s \in StageSet : LiveFlushed(s)

\* one step of run()
LiveHub ==
    \/ LiveTick
    \/ PollVio
    \/ PollVad
    \/ PollAsr
    \/ PollSlu
    \/ PollDm
    \/ PollNlg
    \/ PollTts
    \/ TimerChecks

LiveNext ==
    \/ LiveTick
    \/ PollVio
    \/ PollVad
    \/ PollAsr
    \/ PollSlu
    \/ PollDm
    \/ PollNlg
    \/ PollTts
    \/ TimerChecks
    \/ LiveNotify
    \/ LiveStageFlushed

\* run() keeps running, and a flush() that waits for its answer is answered
\* in the end
LiveSpec ==
    /\ Init
    /\ [][LiveNext]_vars
    /\ WF_vars(LiveHub)
    /\ SF_vars(LiveStageFlushed)

\* ------------------------------------------- the hard limit check alone
\* The timer checks of lines 342-354 applied to every combination of the
\* values below of the variables and of the configuration that line 351-352
\* read, the hangup flag being unset.
HardTurns == {-1, 0, 1}
HardCallStarts == {0, 1}
HardNows == {1, 3}
HardTimeLimits == {-2, 0, 2}
HardTurnLimits == {-2, -1, 0}

HardLimitInit ==
    /\ pc = "timers"
    /\ now \in HardNows
    /\ ticks = 1
    /\ \E n \in HardTurns, c \in HardCallStarts,
          tl \in HardTimeLimits, nl \in HardTurnLimits :
         loc = [InitLoc EXCEPT !.number_of_turns = n,
                               !.call_start = c,
                               !.cfg = [hard_time_limit |-> tl,
                                        hard_turn_limit |-> nl]]
    /\ chan = [s \in StageSet |-> <<>>]
    /\ unanswered = [s \in StageSet |-> 0]
    /\ sent = <<>>
    /\ handled = <<>>
    /\ events = 0
    /\ close_event = FALSE
    /\ last = [at |-> "tts", note |-> NoNote, stats |-> NoStats, pre |-> loc,
               sends |-> <<>>, exc |-> FALSE, broken |-> FALSE, db |-> <<>>,
               tick0 |-> 0]
    /\ call_active = FALSE
    /\ node = NoNode
    /\ nlast = NoCall

HardLimitNext == TimerChecks

HardLimitSpec == HardLimitInit /\ [][HardLimitNext]_vars

\* ------------------------------------------------ vocabulary of the claims
Flush(to) == Cmd(to, "flush", NoUri, 0)
Hangup == Cmd("vio", "hangup", NoUri, 0)
Flushed == Note("flushed", NoUri)

InSeq(x, seq) == \E i \in 1..Len(seq) : seq[i] = x

RECURSIVE CountIn(_, _)
CountIn(x, seq) ==
    IF seq = <<>> THEN 0
    ELSE (IF Head(seq) = x THEN 1 ELSE 0) + CountIn(x, Tail(seq))

\* how many notifications named n the hub received from stage s
NumHandled(s, n) ==
    Cardinality({i \in 1..Len(handled) :
                   handled[i].from = s /\ handled[i].note.name = n})

\* how many notifications the hub received from stage s
NumHandledFrom(s) == Cardinality({i \in 1..Len(handled) : handled[i].from = s})

IsPrefix(a, b) == Len(a) <= Len(b) /\ a = SubSeq(b, 1, Len(a))

\* the latest step received notification n from stage s
JustHandled(s, n) == last.at = s /\ last.note.name = n

\* ------------------------------------------------------------------- C1
\* C1 (as claimed): at every tick boundary number_of_turns = -1 exactly when
\* no call is active, a call being active from the handling of call_confirmed
\* to the handling of call_disconnected.
C1_TurnCountIffCallActive ==
    pc = "top" => ((loc.number_of_turns = -1) <=> ~call_active)

\* --------------------------------------------------------------- C2 - C4
EndDialogue == Cmd("dm", "end_dialogue", NoUri, 0)
FlushOut == Cmd("vio", "flush_out", NoUri, 0)

Cascade ==
    <<Flush("vio"), Flush("vad"), Flush("asr"), Flush("slu"), Flush("dm"),
      EndDialogue, Flush("nlg"), Flush("tts"), FlushOut>>

\* the commands of the cascade among those the hub sent, in order
CascadeSent ==
    SelectSeq(sent, LAMBDA c : c.name \in {"flush", "end_dialogue", "flush_out"})

\* one call_disconnected was handled and nothing else that starts a flush
OneDisconnect ==
    NumHandled("vio", "call_disconnected") = 1 /\ NumHandled("vad", "speech_start") = 0

\* no flush() is unanswered and no flushed is waiting to be received
NoFlushPending ==
    \A s \in StageSet : unanswered[s] = 0 /\ ~InSeq(Flushed, chan[s])

\* element k of the cascade is sent only once flushed was received from ...
AckClaimed == <<"", "vio", "vad", "asr", "slu", "dm", "dm", "nlg", "tts">>
AckInCode == <<"", "vio", "vad", "asr", "slu", "slu", "dm", "nlg", "tts">>

Gated(ack) ==
    \A k \in 2..Len(CascadeSent) :
        k <= Len(ack) => NumHandled(ack[k], "flushed") >= 1

C4_CascadeEndResetsTurns ==
    [][(/\ pc = "timers"
        /\ JustHandled("tts", "flushed")
        /\ NumHandled("vio", "call_confirmed") >= 1
        /\ NumHandled("vio", "call_disconnected") >= 1)
       => loc'.number_of_turns = -1]_vars

\* ------------------------------------------------------------------- C5
\* C5 (as claimed): handling speech_start sends exactly one flush to NLG and
\* clears s_voice_activity when s_voice_activity was true and more than 20 ms
\* have passed, at the time of handling, since s_last_voice_activity_time;
\* otherwise it sends no flush to NLG; u_voice_activity is true afterwards.
C5_BargeInGuard ==
    JustHandled("vad", "speech_start") =>
        /\ IF /\ last.pre.s_voice_activity
              /\ now - last.pre.s_last_voice_activity_time > BargeInGuard
             THEN last.sends = <<Flush("nlg")>> /\ ~loc.s_voice_activity
             ELSE ~InSeq(Flush("nlg"), last.sends)
        /\ loc.u_voice_activity

\* ------------------------------------------------------------------- C6
\* the soft hangup check of the latest step fired; the hard limit fired
SoftFired == last.pre.hangup /\ ~loc.hangup
HardFired == last.pre.number_of_turns # -1 /\ loc.number_of_turns = -1

Quiet ==
    /\ now - last.pre.s_last_dm_activity_time > QuietTime
    /\ ~last.pre.s_voice_activity
    /\ now - last.pre.s_last_voice_activity_time > QuietTime

\* C6: the soft hangup check sends hangup to VoipIO, once, and clears the
\* hangup flag in exactly the ticks where the flag is set, more than 2 s have
\* passed since the last dialogue act and since the last change of the
\* system's voice activity, and the system is not speaking; in every other
\* tick it sends nothing and leaves the flag as it is.  No other step of the
\* loop but the timer checks sends hangup.
C6_SoftHangup ==
    /\ last.at = "timers" =>
           /\ loc.hangup = (last.pre.hangup /\ ~Quiet)
           /\ CountIn(Hangup, last.sends) =
                  (IF last.pre.hangup /\ Quiet THEN 1 ELSE 0)
                  + (IF HardFired THEN 1 ELSE 0)
           /\ Len(last.sends) = CountIn(Hangup, last.sends)
    /\ last.at # "timers" => ~InSeq(Hangup, last.sends)

C6_Witness ==
    /\ last.at = "timers"
    /\ NumHandled("dm", "hangup") >= 1
    /\ NumHandled("dm", "dm_da_generated") >= 1
    /\ SoftFired
    /\ last.sends = <<Hangup>>

\* ------------------------------------------------------------------- C7
\* C7: when the polls of a tick end with number_of_turns # -1 and the call
\* longer than hard_time_limit or with more turns than hard_turn_limit, the
\* timer checks send hangup to VoipIO and set number_of_turns = -1, whatever
\* the hangup flag, the voice activity flags and the time of the last
\* dialogue act.
C7_HardLimit ==
    (/\ last.at = "timers"
     /\ last.pre.number_of_turns # -1
     /\ \/ now - last.pre.call_start > hard_time_limit
        \/ last.pre.number_of_turns > hard_turn_limit)
    => /\ loc.number_of_turns = -1
       /\ CountIn(Hangup, last.sends) = 1 + (IF SoftFired THEN 1 ELSE 0)

C7_Witness ==
    /\ last.at = "timers"
    /\ last.pre.number_of_turns # -1
    /\ ~last.pre.hangup
    /\ last.pre.s_voice_activity
    /\ last.sends = <<Hangup>>
    /\ loc.number_of_turns = -1

\* ------------------------------------------------------------------- C8
Synthesize == Cmd("tts", "synthesize", NoUri, 0)

\* C8: handling call_confirmed with more calls than last_period_max_num_calls
\* or more time than last_period_max_total_time in the last period sends
\* synthesize to TTS and black_list, for the caller and expiring blacklist_for
\* from now, to VoipIO, sets the hangup flag and sends no new_dialogue;
\* otherwise it sends neither synthesize nor black_list.
C8_RateLimit ==
    JustHandled("vio", "call_confirmed") =>
        IF \/ last.stats.calls > last_period_max_num_calls
           \/ last.stats.time > last_period_max_total_time
          THEN /\ last.sends =
                      <<Synthesize,
                        Cmd("vio", "black_list", last.note.remote_uri,
                            now + blacklist_for)>>
               /\ loc.hangup
          ELSE \A i \in 1..Len(last.sends) :
                   last.sends[i].name \notin {"synthesize", "black_list"}

C8_Witness ==
    /\ JustHandled("vio", "call_confirmed")
    /\ last.stats.calls > last_period_max_num_calls
    /\ last.stats.time <= last_period_max_total_time
    /\ InSeq(Synthesize, last.sends)
    /\ loc.hangup

\* ------------------------------------------------------------------- C9
MakeCall(uri) == Cmd("vio", "make_call", uri, 0)

\* the callback check of the latest step found a callback pending whose
\* time, or more, has passed; whose time has passed
CallBackReached == last.pre.call_back_time # -1 /\ now >= last.pre.call_back_time
CallBackPassed == last.pre.call_back_time # -1 /\ now > last.pre.call_back_time

CallBackRule(due) ==
    /\ JustHandled("vio", "rejected_call") =>
           /\ loc.call_back_time = now + wait_time_before_calling_back
           /\ loc.call_back_uri = last.note.remote_uri
    /\ last.at = "callback" =>
           IF due
             THEN /\ last.sends = <<MakeCall(last.pre.call_back_uri)>>
                  /\ loc.call_back_time = -1
                  /\ loc.call_back_uri = NoUri
             ELSE last.sends = <<>> /\ loc = last.pre
    /\ last.at # "callback" =>
           \A i \in 1..Len(last.sends) : last.sends[i].name # "make_call"

Position(s) == CHOOSE i \in 1..Len(Stages) : Stages[i] = s

\* where the loop is after the step made at `at`
After(at) ==
    CASE at \in {"init", "timers"} -> "top"
      [] at = "callback" -> "vio"
      [] at = "tts" -> "timers"
      [] OTHER -> Stages[Position(at) + 1]

\* C10: every tick polls the seven connections in the order VoipIO, VAD, ASR,
\* SLU, DM, NLG, TTS and receives at most one notification from each; it
\* passes a connection by, without receiving, only when nothing is pending on
\* it; so a stage is never received from more often than the loop has ticked.
C10_PollOrder ==
    /\ pc \in {After(last.at), "returned", "raised"}
    /\ pc = "raised" => last.exc
    /\ pc = "returned" => last.at \in {"init", "timers"}
    /\ \A s \in StageSet :
           /\ NumHandledFrom(s) <= ticks
           /\ (last.at = s /\ last.note = NoNote) => chan[s] = <<>>
           /\ (last.at = s /\ last.note # NoNote) =>
                  handled[Len(handled)] = [from |-> s, note |-> last.note]

C10_Witness ==
    /\ pc = "vad"
    /\ ticks = 1
    /\ NumHandledFrom("vio") = 1
    /\ Len(chan["vio"]) = 1

\* ------------------------------------------------------------------ C11
\* the commands sent so far in the current iteration of the loop
TickSends == SubSeq(sent, last.tick0 + 1, Len(sent))

\* C11 (as claimed): the callback check is the last thing of a tick, after
\* the seven polls and after the soft and the hard hangup checks: within one
\* tick a make_call is sent after every other command of that tick.
C11_CallBackCheckedLast ==
    \A i, j \in 1..Len(TickSends) :
        (TickSends[i].name = "make_call" /\ TickSends[j].name # "make_call")
            => j < i

\* C11 (amended): the callback check is the first thing of a tick, right
\* after the sleep and before any connection is polled; the soft and the hard
\* hangup checks come after the seven polls.  Within one tick a make_call is
\* the first command sent, and the hangups are the last.
C11_CallBackCheckedFirst ==
    /\ \A i \in 1..Len(TickSends) :
           /\ TickSends[i].name = "make_call" => i = 1
           /\ TickSends[i] = Hangup =>
                  /\ last.at = "timers"
                  /\ \A j \in i..Len(TickSends) : TickSends[j] = Hangup
    /\ last.at = "callback" =>
           /\ pc \in {"vio", "raised"}
           /\ TickSends = last.sends
           /\ CallBackPassed => TickSends = <<MakeCall(last.pre.call_back_uri)>>

C11_Witness ==
    /\ last.at = "timers"
    /\ Len(TickSends) = 2
    /\ TickSends[1].name = "make_call"
    /\ TickSends[2] = Hangup

\* ------------------------------------------------------------------ C12
Stop(to) == Cmd(to, "stop", NoUri, 0)

\* C12 (as claimed): when run() has returned because the close event was
\* seen, stop was sent to each of the seven stages and no command connection
\* holds a message any more.
C12_ShutdownStopsAndDrains ==
    pc = "returned" =>
        \A s \in StageSet : InSeq(Stop(s), sent) /\ chan[s] = <<>>

\* ------------------------------------------------------------------ C13
\* the handler of the latest notification raised
HandlerRaised == last.exc /\ ~last.broken /\ last.note # NoNote

\* C13 (as claimed): when the handling of a notification raises, the loop
\* goes on with the next connection and the close event is not set.
C13_HandlerErrorIgnored ==
    HandlerRaised => (pc = After(last.at) /\ ~close_event)

\* ------------------------------------------------------------------ C14
\* C14: when poll() or recv() on a command connection raises, run() sets the
\* close event and raises; once run() has raised it receives no further
\* notification and sends no further command.
C14_BrokenConnectionFatal ==
    [][/\ last'.broken => (pc' = "raised" /\ close_event')
       /\ pc = "raised" => (pc' = "raised" /\ close_event'
                            /\ sent' = sent /\ handled' = handled)]_vars

C14_Witness ==
    /\ last.broken
    /\ pc = "raised"
    /\ close_event
    /\ chan["dm"] # <<>>
    /\ NumHandledFrom("vio") = 1

\* ------------------------------------------------------------------ C15
\* C15 (as claimed): a call_confirmed handled while number_of_turns # -1
\* changes no local variable and sends nothing.
C15_ConfirmedWhileActiveDropped ==
    (JustHandled("vio", "call_confirmed") /\ last.pre.number_of_turns # -1)
        => (loc = last.pre /\ last.sends = <<>>)

\* ------------------------------------------------------------------ C16
\* C16 (as claimed): the hangup flag is set only while a call is confirmed
\* and not yet disconnected.
C16_HangupOnlyWhileActive == loc.hangup => call_active

\* ------------------------------------------------------------------ C17
\* the latest step accepted a confirmed call
JustAccepted ==
    /\ JustHandled("vio", "call_confirmed")
    /\ last.stats.calls <= last_period_max_num_calls
    /\ last.stats.time <= last_period_max_total_time

\* C17 (as claimed): the hangup flag is false right after a call_confirmed
\* is handled on the accepting branch.
C17_AcceptClearsHangup == JustAccepted => ~loc.hangup

\* ------------------------------------------------------------------ C18
NewDialogue == Cmd("dm", "new_dialogue", NoUri, 0)

\* C18: handling call_confirmed sets number_of_turns = 0 and call_start to
\* the current time on either branch; on the accepting branch it also sets
\* both voice activity flags to false and sends exactly new_dialogue to DM,
\* nothing to TTS or VoipIO.
C18_AcceptResetsSession ==
    JustHandled("vio", "call_confirmed") =>
        /\ loc.number_of_turns = 0
        /\ loc.call_start = now
        /\ JustAccepted =>
               /\ ~loc.s_voice_activity
               /\ ~loc.u_voice_activity
               /\ last.sends = <<NewDialogue>>

C18_Witness ==
    /\ JustAccepted
    /\ last.pre.s_voice_activity
    /\ ~loc.s_voice_activity
    /\ last.pre.number_of_turns = -1
    /\ loc.number_of_turns = 0
    /\ last.sends = <<NewDialogue>>

\* ------------------------------------------------------------------ C19
CallBackPending == loc.call_back_time # -1

\* positions in handled of the rejected_call notifications
Rejections ==
    {i \in 1..Len(handled) :
        handled[i].from = "vio" /\ handled[i].note.name = "rejected_call"}

LatestRejectedUri ==
    handled[CHOOSE i \in Rejections : \A j \in Rejections : j <= i].note.remote_uri

NumMakeCalls ==
    Cardinality({i \in 1..Len(sent) : sent[i].name = "make_call"})

\* C19: one callback at most is pending, the one of the latest rejected_call:
\* handling rejected_call replaces the uri and the time of the callback,
\* pending or not; nothing else but the callback check changes them; a
\* make_call goes to the uri of the latest rejected_call, later than the time
\* set by it, and there are never more make_calls than rejected_calls, one
\* fewer while a callback is pending.
C19_LatestRejectionWins ==
    /\ CallBackPending <=> loc.call_back_uri # NoUri
    /\ CallBackPending => loc.call_back_uri = LatestRejectedUri
    /\ NumMakeCalls + (IF CallBackPending THEN 1 ELSE 0) <= Cardinality(Rejections)
    /\ JustHandled("vio", "rejected_call") =>
           /\ loc.call_back_uri = last.note.remote_uri
           /\ loc.call_back_time = now + wait_time_before_calling_back
    /\ (last.at # "callback" /\ ~JustHandled("vio", "rejected_call")) =>
           /\ loc.call_back_uri = last.pre.call_back_uri
           /\ loc.call_back_time = last.pre.call_back_time
    /\ (last.at = "callback" /\ last.sends # <<>>) =>
           /\ last.sends = <<MakeCall(LatestRejectedUri)>>
           /\ now > last.pre.call_back_time
           /\ ~CallBackPending

C19_Witness ==
    /\ Cardinality(Rejections) = 2
    /\ handled[1].note.remote_uri = "u1"
    /\ handled[2].note.remote_uri = "u2"
    /\ last.at = "callback"
    /\ sent = <<MakeCall("u2")>>

\* ------------------------------------------------------------------ C20
\* C20: run() returns only from the top of the loop, with the close event
\* set; once the close event is set at the top of the loop, and after run()
\* has returned, no notification is received and no command is sent any
\* more, whatever is pending on the connections.
C20_CancellationAbrupt ==
    [][/\ (pc = "top" /\ close_event) =>
              (pc' \in {"top", "returned"} /\ sent' = sent /\ handled' = handled)
       /\ pc = "returned" =>
              (pc' = "returned" /\ sent' = sent /\ handled' = handled)
       /\ pc' = "returned" => (pc \in {"top", "returned"} /\ close_event)]_vars

\* run() has returned in the middle of a flush cascade
C20_Witness ==
    /\ pc = "returned"
    /\ InSeq(Flush("vio"), sent)
    /\ ~InSeq(Flush("vad"), sent)
    /\ chan["vio"] = <<Flushed>>

\* ------------------------------------------------------------------ C21
\* the names the code tests on the connection of each stage
HandledNames(s) ==
    CASE s = "vio" -> {"incoming_call", "rejected_call",
                       "rejected_call_from_blacklisted_uri", "call_connecting",
                       "call_confirmed", "call_disconnected",
                       "play_utterance_start", "play_utterance_end", "flushed"}
      [] s = "vad" -> {"speech_start", "speech_end", "flushed"}
      [] s = "dm" -> {"hangup", "dm_da_generated", "flushed"}
      [] OTHER -> {"flushed"}

\* the latest step received something the code has no handler for
JustUnhandled ==
    /\ last.at \in StageSet
    /\ last.note # NoNote
    /\ last.note.name \notin HandledNames(last.at)

\* C21: a message that is received from a stage and whose name the code does
\* not test for that stage is taken off the connection, changes no local
\* variable, sends nothing and does not raise: the loop goes on to the next
\* connection.
C21_UnhandledIgnored ==
    JustUnhandled =>
        /\ handled[Len(handled)] = [from |-> last.at, note |-> last.note]
        /\ loc = last.pre
        /\ last.sends = <<>>
        /\ last.broken \/ (~last.exc /\ pc = After(last.at) /\ ~close_event)

C21_Witness ==
    /\ NumHandled("vio", "speech_start") = 1
    /\ NumHandled("vad", "hangup") = 1
    /\ JustHandled("vad", "hangup")
    /\ pc = "asr"
    /\ loc = InitLoc

\* ------------------------------------------------------------------ C22
\* C22: the step that handles a call_confirmed, on either branch, reads the
\* statistics of the uri and then records the confirmed call, once, for that
\* uri; the admission test is made on the statistics read, before the record;
\* the step that handles a call_disconnected records the disconnected call,
\* once, for its uri; no other step records a call.
C22_CallDbRecords ==
    /\ JustHandled("vio", "call_confirmed") =>
           /\ last.db = <<DbCall("get_uri_stats", last.note.remote_uri),
                          DbCall("track_confirmed_call", last.note.remote_uri)>>
           /\ loc.hangup
                 \/ ~(\/ last.stats.calls > last_period_max_num_calls
                      \/ last.stats.time > last_period_max_total_time)
    /\ JustHandled("vio", "call_disconnected") =>
           last.db = <<DbCall("track_disconnected_call", last.note.remote_uri)>>
    /\ ~(\/ JustHandled("vio", "call_confirmed")
         \/ JustHandled("vio", "call_disconnected")) => last.db = <<>>

C22_Witness ==
    /\ JustHandled("vio", "call_disconnected")
    /\ NumHandled("vio", "call_confirmed") = 1
    /\ Len(last.db) = 1
    /\ last.sends = <<Flush("vio")>>

\* ------------------------------------------------------------------ C23
\* the latest step was a barge-in: a speech_start that stopped the system's
\* voice activity
JustBargedIn ==
    /\ JustHandled("vad", "speech_start")
    /\ last.pre.s_voice_activity
    /\ ~loc.s_voice_activity

\* the stage whose flushed makes the hub flush stage s
Predecessor(s) == Stages[Position(s) - 1]

\* C23: for every stage but VoipIO and NLG, as many flush were sent to it as
\* flushed were received from the stage before it; as many flush_out were
\* sent as flushed were received from TTS; as many flush were sent to VoipIO
\* as call_disconnected were received; as many flush were sent to NLG as
\* flushed were received from DM and barge-ins happened: a step sends flush to
\* NLG exactly when it receives the flushed of DM or is a barge-in.
C23_FlushCounts ==
    /\ \A s \in StageSet \ {"vio", "nlg"} :
           CountIn(Flush(s), sent) = NumHandled(Predecessor(s), "flushed")
    /\ CountIn(FlushOut, sent) = NumHandled("tts", "flushed")
    /\ CountIn(Flush("vio"), sent) = NumHandled("vio", "call_disconnected")
    /\ CountIn(Flush("nlg"), sent) >= NumHandled("dm", "flushed")
    /\ CountIn(Flush("nlg"), sent)
           <= NumHandled("dm", "flushed") + NumHandled("vad", "speech_start")
    /\ CountIn(Flush("nlg"), last.sends) =
           (IF JustHandled("dm", "flushed") \/ JustBargedIn THEN 1 ELSE 0)

C23_Witness ==
    /\ NumHandled("dm", "flushed") = 1
    /\ NumHandled("vio", "call_disconnected") = 1
    /\ CountIn(Flush("nlg"), sent) = 1
    /\ CountIn(FlushOut, sent) = 1

\* ------------------------------------------------------------------ C24
\* C24 (as claimed): whatever hard_time_limit and hard_turn_limit are, a
\* timer check that finds number_of_turns = -1 (and the hangup flag unset)
\* sends no hangup and leaves number_of_turns as it is.
C24_HardLimitGuarded ==
    (/\ last.at = "timers"
     /\ last.pre.number_of_turns = -1
     /\ ~last.pre.hangup)
    => (last.sends = <<>> /\ loc.number_of_turns = -1)

\* ------------------------------------------------------------------ C27
\* the latest step rejected a confirmed call
JustRejected == JustHandled("vio", "call_confirmed") /\ ~JustAccepted

\* C27: handling call_confirmed on the rejecting branch sets s_voice_activity
\* to true and s_last_voice_activity_time to the current time; the only steps
\* that clear s_voice_activity are play_utterance_end and a barge-in, which
\* set s_last_voice_activity_time to the current time, and the acceptance of
\* another confirmed call; and the soft hangup check sends hangup only when
\* s_voice_activity is false and more than 2 s have passed since
\* s_last_voice_activity_time.
C27_SoftHangupWaitsForMessage ==
    /\ JustRejected =>
           (loc.s_voice_activity /\ loc.s_last_voice_activity_time = now)
    /\ (last.pre.s_voice_activity /\ ~loc.s_voice_activity) =>
           \/ /\ \/ JustHandled("vio", "play_utterance_end")
                 \/ JustHandled("vad", "speech_start")
              /\ loc.s_last_voice_activity_time = now
           \/ JustAccepted
    /\ (last.at = "timers" /\ SoftFired) =>
           /\ ~last.pre.s_voice_activity
           /\ now - last.pre.s_last_voice_activity_time > QuietTime

\* a rejected call is hung up by the soft check after play_utterance_end
C27_Witness ==
    /\ last.at = "timers"
    /\ SoftFired
    /\ NumHandled("vio", "call_confirmed") = 1
    /\ NumHandled("vio", "play_utterance_end") = 1
    /\ handled[1].note.name = "call_confirmed"
    /\ loc.s_last_voice_activity_time > loc.call_start

\* ------------------------------------------------------------------ C28
\* the commands of a flush cascade that a barge-in must not cause
InputHalf == {Flush("vio"), Flush("vad"), Flush("asr"), Flush("slu"),
              Flush("dm"), EndDialogue}

\* C28: a barge-in sends flush to NLG only and leaves number_of_turns and the
\* hangup flag as they are; the flushed of NLG makes the hub send flush to TTS
\* only, the flushed of TTS flush_out only, neither changing a local
\* variable; and as long as no call_disconnected was received the hub has
\* sent no flush to VoipIO, VAD, ASR, SLU or DM and no end_dialogue.
C28_BargeInFlushesOutputHalf ==
    /\ JustBargedIn =>
           /\ last.sends = <<Flush("nlg")>>
           /\ loc.number_of_turns = last.pre.number_of_turns
           /\ loc.hangup = last.pre.hangup
    /\ JustHandled("nlg", "flushed") =>
           (last.sends = <<Flush("tts")>> /\ loc = last.pre)
    /\ JustHandled("tts", "flushed") =>
           (last.sends = <<FlushOut>> /\ loc = last.pre)
    /\ NumHandled("vio", "call_disconnected") = 0 =>
           \A i \in 1..Len(sent) : sent[i] \notin InputHalf

C28_Witness ==
    /\ NumHandled("vad", "speech_start") = 1
    /\ NumHandled("vio", "call_disconnected") = 0
    /\ JustHandled("tts", "flushed")
    /\ sent = <<Flush("nlg"), Flush("tts"), FlushOut>>

\* ------------------------------------------------------------------ C29
\* C29 (as claimed): the handling of a speech_start received from VAD reads
\* no name that is not assigned yet and does not raise.
C29_SpeechStartNeverRaises ==
    (JustHandled("vad", "speech_start") /\ ~last.broken) =>
        /\ ~last.exc
        /\ last.pre.s_voice_activity => "current_time" \notin last.pre.unbound

\* ------------------------------------------------------------------ C30
\* one call was confirmed, before anything else was received, and only DM
\* notifications were received after it
OneCallThenDm ==
    /\ Len(handled) >= 1
    /\ handled[1] = [from |-> "vio", note |-> Note("call_confirmed", "u1")]
    /\ \A i \in 2..Len(handled) :
           /\ handled[i].from = "dm"
           /\ handled[i].note.name \in {"hangup", "dm_da_generated"}

\* C30 (as claimed): during one confirmed call, whatever DM sends, the soft
\* hangup check and the hard limit check together send hangup once at most.
C30_OneHangupPerCall == OneCallThenDm => CountIn(Hangup, sent) <= 1

\* ------------------------------------------------------------------ C25
NumDisconnected == NumHandled("vio", "call_disconnected")

\* every flush() was answered and every flushed was received
NoFlushInFlight ==
    \A s \in StageSet : unanswered[s] = 0 /\ ~InSeq(Flushed, chan[s])

\* every cascade ran to its end: each call_disconnected was passed on from
\* VoipIO to DM, and each flush of NLG, of a cascade or of a barge-in, was
\* passed on to TTS and ended with a flush_out
CascadesDone ==
    /\ NoFlushInFlight
    /\ \A s \in {"vio", "vad", "asr", "slu", "dm"} :
           NumHandled(s, "flushed") = NumDisconnected
    /\ CountIn(Flush("nlg"), sent) >= NumDisconnected
    /\ NumHandled("nlg", "flushed") = CountIn(Flush("nlg"), sent)
    /\ NumHandled("tts", "flushed") = CountIn(Flush("nlg"), sent)
    /\ CountIn(FlushOut, sent) = CountIn(Flush("nlg"), sent)

\* the latest step sent a flush or a flush_out
JustFlushed ==
    \E i \in 1..Len(last.sends) : last.sends[i].name \in {"flush", "flush_out"}

\* C25: as long as run() does not raise, every call_disconnected is followed
\* in the end by the flush_out of its cascade, all the stages having been
\* flushed in between; and once every cascade has ended, the next flush the
\* hub sends is the one of a new call_disconnected or of a barge-in.
C25_CascadeCompletes ==
    /\ (~CascadesDone) ~> (CascadesDone \/ pc = "raised")
    /\ [][(CascadesDone /\ sent' # sent /\ JustFlushed')
            => (JustHandled("vio", "call_disconnected")' \/ JustBargedIn')]_vars

C25_Witness ==
    /\ CascadesDone
    /\ NumDisconnected = 1
    /\ CountIn(FlushOut, sent) = 1
    /\ ticks >= 3

\* ------------------------------------------------------------------ C26
\* C26: as long as run() does not raise, a call_confirmed handled on the
\* rejecting branch is followed in the end by a hangup sent to VoipIO,
\* whatever VoipIO and DM send or do not send afterwards.
C26_RejectedCallHungUp ==
    JustRejected
        ~> ((last.at = "timers" /\ InSeq(Hangup, last.sends)) \/ pc = "raised")

\* a rejected call hung up by the hard limit, nothing else having happened
C26_Witness ==
    /\ handled = <<[from |-> "vio", note |-> Note("call_confirmed", "u1")]>>
    /\ events = 1
    /\ loc.hangup
    /\ loc.s_voice_activity
    /\ InSeq(Hangup, sent)

\* ------------------------------------------------------------------ C31
\* C31: while no call is active (before the first call_confirmed is handled,
\* and from the handling of a call_disconnected to that of the next
\* call_confirmed) the soft hangup check and the hard limit check of a tick
\* send no hangup to VoipIO, whatever DM has sent in the meantime.
C31_NoHangupWithoutCall ==
    (last.at = "timers" /\ ~call_active) => ~InSeq(Hangup, last.sends)

\* ------------------------------------------------------------------ C32
\* the belief and the table of incoming messages of B are those of A: the
\* same objects, with the same contents
SameBeliefAndMessages(A, B) ==
    /\ B.belief = A.belief
    /\ B.heap[B.belief] = A.heap[A.belief]
    /\ B.incoming_message = A.incoming_message
    /\ \A i \in 1..Len(A.neighbors) :
         B.heap[B.incoming_message[i]] = A.heap[A.incoming_message[i]]

\* the product of the incoming messages of N from the i-th on
RECURSIVE ProductOfMessages(_, _)
ProductOfMessages(N, i) ==
    IF i > Len(N.neighbors)
    THEN [v \in Values |-> 0]
    ELSE [v \in Values |-> View(N.heap[N.incoming_message[i]])[v]
                           + ProductOfMessages(N, i + 1)[v]]

\* the latest call found the node released by observed(None) after an
\* observation
Released ==
    /\ ~nlast.pre.is_observed
    /\ \E i \in 1..(Len(nlast.ops) - 1) : nlast.ops[i] = "observed"

\* C32: an observed DiscreteVariableNode is frozen.  From observed(a) with
\* an assignment a to observed(None), a call of message_from or of update
\* leaves the belief and the table of incoming messages as they were, and
\* message_to hands the neighbour a new object equal to the belief, the node
\* staying as it was; observed(None) ends the observation, and from then on
\* message_from stores the message it is given and update sets the belief
\* to the product of the incoming messages.
C32_ObservedNodeFrozen ==
    /\ (nlast.op \in {"message_from", "update"} /\ nlast.pre.is_observed)
         => (node.is_observed /\ SameBeliefAndMessages(nlast.pre, node))
    /\ (nlast.op = "message_to" /\ nlast.pre.is_observed)
         => /\ node.is_observed
            /\ SameBeliefAndMessages(nlast.pre, node)
            /\ node.delivered.to = nlast.arg.node
            /\ node.delivered.obj > Len(nlast.pre.heap)
            /\ node.heap[node.delivered.obj] = node.heap[node.belief]
    /\ nlast.op = "observed" => node.is_observed
    /\ nlast.op = "observed(None)" => ~node.is_observed
    /\ (nlast.op = "message_from" /\ Released)
         => node.incoming_message[nlast.arg.node] = nlast.arg.message
    /\ (nlast.op = "update" /\ Released)
         => View(node.heap[node.belief]) = ProductOfMessages(node, 1)

\* observed, a message that is dropped, released, a message that is stored
\* and an update that takes it into the belief
C32_Witness ==
    /\ nlast.ops = <<"observed", "message_from", "observed(None)",
                     "message_from", "update">>
    /\ Len(node.neighbors) = 2
    /\ node.heap[4].table # constant_factor.table
    /\ \A i \in 1..2 : node.incoming_message[i] # 4
    /\ node.incoming_message[2] = 5
    /\ View(node.heap[node.belief]) = [v \in Values |-> IF v = "v0" THEN 1 ELSE 0]
    /\ View(node.heap[node.belief]) # View(nlast.pre.heap[nlast.pre.belief])

====
